---- MODULE Spec2Model ----
(***************************************************************************)
(* The CropRecommendation component of frontend/src/App.jsx: its React     *)
(* state, the mount effect that loads the dropdowns, the two selects, the  *)
(* async submit handler (one /recommend-crop request, then one /predict    *)
(* request per returned candidate under Promise.all) and the confidence    *)
(* badge computed by getConfidenceLevel when the crop cards are rendered.  *)
(*                                                                         *)
(* Numbers.  A raw score is the integer c standing for c / Scale.  Every   *)
(* intermediate value of getConfidenceLevel is carried as an integer       *)
(* numerator over the denominator Den = 2 * Scale, which makes the         *)
(* multipliers 1.5 and 2.5 exact.  The arithmetic is exact rational        *)
(* arithmetic: the rounding error of binary64 is not modelled (it can only *)
(* move a value that is an exact tie n + 1/2 off the tie).                 *)
(***************************************************************************)
EXTENDS Integers, Sequences, FiniteSets

\* Resolution of the raw scores: c \in 0..Scale stands for c / Scale.
Scale == 1000
\* Longest candidate list the /recommend-crop response may carry.
MaxList == 4
\* A submission starts only while at most this many callbacks of abandoned
\* Promise.all calls are still pending (keeps the stale count finite).
MaxStale == 1

\* "top 3 crops": the K the backend is documented to return.
TopK == 3

VARIABLES
    dropdownData,      \* useState({})    : [Region, SoilType] sets of options
    dropdownFetch,     \* position of the mount effect's fetchDropdownData
    selectedRegion,    \* useState('')
    selectedSoilType,  \* useState('')
    loading,           \* useState(false)
    results,           \* useState(null)
    error,             \* useState('')
    badges,            \* the rendered confidence badges, one per crop card
    phase,             \* position of the running handleSubmit
    subRegion,         \* selectedRegion as captured by the running handler
    subSoilType,       \* selectedSoilType as captured by the running handler
    cropData,          \* the parsed /recommend-crop body of the handler
    detail,            \* per candidate: position / value of its map callback
    arrival,           \* candidates in the order their callbacks resolved
    requests,          \* the fetch calls issued by the handler, in order
    stale              \* pending /predict callbacks of abandoned Promise.all calls

vars == <<dropdownData, dropdownFetch, selectedRegion, selectedSoilType,
          loading, results, error, badges, phase, subRegion, subSoilType,
          cropData, detail, arrival, requests, stale>>

----------------------------------------------------------------------------
\* Helpers

Min(a, b) == IF a <= b THEN a ELSE b

Max(a, b) == IF a >= b THEN a ELSE b

\* Denominator of the values inside getConfidenceLevel.
Den == 2 * Scale

\* Number.prototype.toFixed(0) of x / Den for x >= 0: the integer n for which
\* n - x/Den is closest to zero, the larger n when two are equally close.
\* The digits string is represented by the integer it spells.
ToFixed0(x) == (2 * x + Den) \div (2 * Den)

----------------------------------------------------------------------------
\* getConfidenceLevel (App.jsx 85-92)

\* A variant that tests the thresholds with > instead of >=.
getConfidenceLevelStrict(confidence) ==
    LET rawPercentage == confidence * 100 * 2
    IN  IF rawPercentage > 25 * Den
          THEN ToFixed0(Min(90 * Den, 60 * Den + ((rawPercentage - 10 * Den) * 3) \div 2))
        ELSE IF rawPercentage > 20 * Den
          THEN ToFixed0(Min(85 * Den, 55 * Den + (rawPercentage - 10 * Den) * 2))
        ELSE IF rawPercentage > 15 * Den
          THEN ToFixed0(Min(75 * Den, 50 * Den + ((rawPercentage - 10 * Den) * 5) \div 2))
        ELSE IF rawPercentage > 10 * Den
          THEN ToFixed0(Min(65 * Den, 45 * Den + (rawPercentage - 10 * Den) * 3))
        ELSE ToFixed0(Max(40 * Den, rawPercentage * 4))

\* A variant whose top branch is not capped.
getConfidenceLevelNoCap(confidence) ==
    LET rawPercentage == confidence * 100 * 2
    IN  IF rawPercentage >= 25 * Den
          THEN ToFixed0(60 * Den + ((rawPercentage - 10 * Den) * 3) \div 2)
        ELSE IF rawPercentage >= 20 * Den
          THEN ToFixed0(Min(85 * Den, 55 * Den + (rawPercentage - 10 * Den) * 2))
        ELSE IF rawPercentage >= 15 * Den
          THEN ToFixed0(Min(75 * Den, 50 * Den + ((rawPercentage - 10 * Den) * 5) \div 2))
        ELSE IF rawPercentage >= 10 * Den
          THEN ToFixed0(Min(65 * Den, 45 * Den + (rawPercentage - 10 * Den) * 3))
        ELSE ToFixed0(Max(40 * Den, rawPercentage * 4))

\* rawPercentage is confidence * 100, here as a numerator over Den
\* (confidence is a numerator over Scale, and Den = 2 * Scale).
getConfidenceLevel(confidence) ==
    LET rawPercentage == confidence * 100 * 2
    IN  IF rawPercentage >= 25 * Den
          THEN ToFixed0(Min(90 * Den, 60 * Den + ((rawPercentage - 10 * Den) * 3) \div 2))
        ELSE IF rawPercentage >= 20 * Den
          THEN ToFixed0(Min(85 * Den, 55 * Den + (rawPercentage - 10 * Den) * 2))
        ELSE IF rawPercentage >= 15 * Den
          THEN ToFixed0(Min(75 * Den, 50 * Den + ((rawPercentage - 10 * Den) * 5) \div 2))
        ELSE IF rawPercentage >= 10 * Den
          THEN ToFixed0(Min(65 * Den, 45 * Den + (rawPercentage - 10 * Den) * 3))
        ELSE ToFixed0(Max(40 * Den, rawPercentage * 4))

\* results.crops.map(...): the badge of every crop card, in card order.
RenderBadges(res) ==
    [i \in 1..Len(res.crops) |-> getConfidenceLevel(res.crops[i].confidence)]

----------------------------------------------------------------------------
\* The backend as the component sees it (README of the API)

\* GET /dropdown-data: the vocabulary the models were trained on.
Regions == {"Punjab", "Bihar"}

SoilTypes == {"Alluvial"}

CropNames == <<"Wheat", "Rice", "Cotton", "Maize", "Bajra", "Jowar">>

\* Raw scores of the ranked candidates, best first, as numerators over 1000.
FixtureScores == <<250, 249, 180, 170, 120, 60>>

\* The ranked list of a region: {crop, confidence} objects, best first.
\* The two regions rank the crops in different orders.
Ranking(region) ==
    [i \in 1..Len(CropNames) |->
        [crop |-> IF region = "Punjab" THEN CropNames[i]
                  ELSE CropNames[Len(CropNames) + 1 - i],
         confidence |-> (FixtureScores[i] * Scale) \div 1000]]

\* The JSON bodies POST /recommend-crop may answer with: one without the
\* top_recommendations field (an error object), or the first n ranked
\* candidates, n being the server's choice.
RecommendBodies(region) ==
    {[present |-> FALSE, top_recommendations |-> <<>>]}
    \cup {[present |-> TRUE,
           top_recommendations |-> SubSeq(Ranking(region), 1, n)] : n \in 0..MaxList}

\* The JSON bodies POST /predict may answer with: the predictions, or the
\* error object of a non-2xx answer (fetch resolves on any HTTP status).
DetailBodies == {"data", "errorBody"}

----------------------------------------------------------------------------
\* Values of the component

\* results === null
Null == [null |-> TRUE, region |-> "", soilType |-> "", crops |-> <<>>]

\* cropData before the /recommend-crop body is parsed
NoBody == [present |-> FALSE, top_recommendations |-> <<>>]

\* A variant that also treats an empty list as missing.
NoRecommendationsOrEmpty(body) ==
    ~body.present \/ Len(body.top_recommendations) = 0

\* if (!cropData.top_recommendations): the field is missing from the body
\* (an array, the empty one included, is truthy).
NoRecommendations(body) == ~body.present

\* A variant that tests the region only.
InputsMissingRegionOnly(region, soilType) == region = ""

\* if (!selectedRegion || !selectedSoilType): '' is the only falsy string.
InputsMissing(region, soilType) == region = "" \/ soilType = ""

\* A variant that issues the request a second time.
RecommendRequestTwice(region, soilType) ==
    << [url |-> "/recommend-crop", Region |-> region, SoilType |-> soilType, Crop |-> ""],
       [url |-> "/recommend-crop", Region |-> region, SoilType |-> soilType, Crop |-> ""] >>

\* The fetch of /recommend-crop the handler issues (App.jsx 107-116).
RecommendRequest(region, soilType) ==
    << [url |-> "/recommend-crop", Region |-> region, SoilType |-> soilType, Crop |-> ""] >>

\* A variant that reads the selects when the requests are issued instead of
\* the values the handler was called with.
DetailRequestsLive(top, region, soilType) ==
    [i \in 1..Len(top) |->
        [url |-> "/predict", Region |-> selectedRegion,
         SoilType |-> selectedSoilType, Crop |-> top[i].crop]]

\* The fetches of /predict issued by top_recommendations.map(async ...): the
\* synchronous part of every callback runs before map returns, so all of
\* them are issued at once, in list order (App.jsx 126-137).
DetailRequests(top, region, soilType) ==
    [i \in 1..Len(top) |->
        [url |-> "/predict", Region |-> region, SoilType |-> soilType,
         Crop |-> top[i].crop]]

\* A variant that collects the callbacks' values in the order they resolved.
CropDetailsByArrival(top, det, arr) ==
    [k \in 1..Len(arr) |->
        [crop |-> top[arr[k]].crop, confidence |-> top[arr[k]].confidence,
         details |-> det[arr[k]]]]

\* The value of Promise.all: the callbacks' values in the order of the
\* input list, whatever the order they resolved in (App.jsx 125-145).
CropDetails(top, det, arr) ==
    [i \in 1..Len(top) |->
        [crop |-> top[i].crop, confidence |-> top[i].confidence,
         details |-> det[i]]]

InFlight(i) == detail[i] \in {"fetch", "json"}

\* Callbacks of the running Promise.all that have not settled.
Pending == {i \in 1..Len(detail) : InFlight(i)}

----------------------------------------------------------------------------
\* Construction: the useState initial values, the mount effect started

Init ==
    /\ dropdownData = [Region |-> {}, SoilType |-> {}]
    /\ dropdownFetch = "fetch"
    /\ selectedRegion = ""
    /\ selectedSoilType = ""
    /\ loading = FALSE
    /\ results = Null
    /\ error = ""
    /\ badges = <<>>
    /\ phase = "idle"
    /\ subRegion = ""
    /\ subSoilType = ""
    /\ cropData = NoBody
    /\ detail = <<>>
    /\ arrival = <<>>
    /\ requests = <<>>
    /\ stale = 0

handlerVars == <<phase, subRegion, subSoilType, cropData, detail, arrival,
                 requests, stale>>

formVars == <<dropdownData, dropdownFetch, selectedRegion, selectedSoilType>>

----------------------------------------------------------------------------
\* fetchDropdownData (App.jsx 69-83)

\* await fetch(`${API_BASE_URL}/dropdown-data`) resolves
DropdownResponse ==
    /\ dropdownFetch = "fetch"
    /\ dropdownFetch' = "json"
    /\ UNCHANGED <<dropdownData, selectedRegion, selectedSoilType, loading,
                   results, error, badges, handlerVars>>

\* await response.json() resolves; setDropdownData(data)
DropdownLoaded ==
    /\ dropdownFetch = "json"
    /\ dropdownFetch' = "done"
    /\ dropdownData' = [Region |-> Regions, SoilType |-> SoilTypes]
    /\ UNCHANGED <<selectedRegion, selectedSoilType, loading, results, error,
                   badges, handlerVars>>

\* either await rejects; catch: setError(t('errors.dropdownFailed'))
DropdownFails ==
    /\ dropdownFetch \in {"fetch", "json"}
    /\ dropdownFetch' = "failed"
    /\ error' = "dropdownFailed"
    /\ UNCHANGED <<dropdownData, selectedRegion, selectedSoilType, loading,
                   results, badges, handlerVars>>

----------------------------------------------------------------------------
\* The selects (App.jsx 171-199): the options are '' and the dropdown data

\* onChange={(e) => setSelectedRegion(e.target.value)}
SelectRegion(region) ==
    /\ region \in {""} \cup dropdownData.Region
    /\ selectedRegion' = region
    /\ UNCHANGED <<dropdownData, dropdownFetch, selectedSoilType, loading,
                   results, error, badges, handlerVars>>

\* onChange={(e) => setSelectedSoilType(e.target.value)}
SelectSoilType(soilType) ==
    /\ soilType \in {""} \cup dropdownData.SoilType
    /\ selectedSoilType' = soilType
    /\ UNCHANGED <<dropdownData, dropdownFetch, selectedRegion, loading,
                   results, error, badges, handlerVars>>

----------------------------------------------------------------------------
\* handleSubmit (App.jsx 94-158)

\* A variant whose catch block only logs.
CatchFinallySilent(left) ==
    /\ loading' = FALSE
    /\ phase' = "idle"
    /\ stale' = stale + left
    /\ UNCHANGED <<results, error, badges>>

\* catch (error) { setError(t('errors.fetchFailed')) } finally { setLoading(false) }
\* The callbacks of a Promise.all that rejected keep running; nothing reads
\* what they return.
CatchFinally(left) ==
    /\ error' = "fetchFailed"
    /\ loading' = FALSE
    /\ phase' = "idle"
    /\ stale' = stale + left
    /\ UNCHANGED <<results, badges>>

\* A variant without the finally block.
SetResultsNoFinally(crops) ==
    /\ results' = [null |-> FALSE, region |-> subRegion,
                   soilType |-> subSoilType, crops |-> crops]
    /\ badges' = RenderBadges(results')
    /\ phase' = "idle"
    /\ UNCHANGED <<loading, error, stale>>

\* setResults({region, soilType, crops: cropDetails}), then finally; the
\* crop cards are rendered from the new results.
SetResults(crops) ==
    /\ results' = [null |-> FALSE, region |-> subRegion,
                   soilType |-> subSoilType, crops |-> crops]
    /\ badges' = RenderBadges(results')
    /\ loading' = FALSE
    /\ phase' = "idle"
    /\ UNCHANGED <<error, stale>>

\* A variant that does not reset the results (no setResults(null)).
handleSubmitKeepsResults ==
    /\ ~loading
    /\ \/ /\ InputsMissing(selectedRegion, selectedSoilType)
          /\ error' = "selectBothFields"
          /\ UNCHANGED <<formVars, loading, results, badges, handlerVars>>
       \/ /\ ~InputsMissing(selectedRegion, selectedSoilType)
          /\ stale <= MaxStale
          /\ loading' = TRUE
          /\ error' = ""
          /\ UNCHANGED <<results, badges>>
          /\ phase' = "rank"
          /\ subRegion' = selectedRegion
          /\ subSoilType' = selectedSoilType
          /\ cropData' = NoBody
          /\ detail' = <<>>
          /\ arrival' = <<>>
          /\ requests' = RecommendRequest(selectedRegion, selectedSoilType)
          /\ UNCHANGED <<formVars, stale>>

\* A variant whose submit control is not disabled while loading.
handleSubmitWhileLoading ==
    /\ TRUE
    /\ \/ /\ InputsMissing(selectedRegion, selectedSoilType)
          /\ error' = "selectBothFields"
          /\ UNCHANGED <<formVars, loading, results, badges, handlerVars>>
       \/ /\ ~InputsMissing(selectedRegion, selectedSoilType)
          /\ stale <= MaxStale
          /\ loading' = TRUE
          /\ error' = ""
          /\ results' = Null
          /\ badges' = <<>>
          /\ phase' = "rank"
          /\ subRegion' = selectedRegion
          /\ subSoilType' = selectedSoilType
          /\ cropData' = NoBody
          /\ detail' = <<>>
          /\ arrival' = <<>>
          /\ requests' = RecommendRequest(selectedRegion, selectedSoilType)
          /\ UNCHANGED <<formVars, stale>>

\* A variant whose input check also resets the results before returning.
handleSubmitRejectClears ==
    /\ ~loading
    /\ \/ /\ InputsMissing(selectedRegion, selectedSoilType)
          /\ error' = "selectBothFields"
          /\ results' = Null
          /\ badges' = <<>>
          /\ UNCHANGED <<formVars, loading, handlerVars>>
       \/ /\ ~InputsMissing(selectedRegion, selectedSoilType)
          /\ stale <= MaxStale
          /\ loading' = TRUE
          /\ error' = ""
          /\ results' = Null
          /\ badges' = <<>>
          /\ phase' = "rank"
          /\ subRegion' = selectedRegion
          /\ subSoilType' = selectedSoilType
          /\ cropData' = NoBody
          /\ detail' = <<>>
          /\ arrival' = <<>>
          /\ requests' = RecommendRequest(selectedRegion, selectedSoilType)
          /\ UNCHANGED <<formVars, stale>>

\* The submit event: the button is disabled while loading.
\* Either the input check returns early, or the handler resets the state
\* and issues the /recommend-crop request.
handleSubmit ==
    /\ ~loading
    /\ \/ /\ InputsMissing(selectedRegion, selectedSoilType)
          /\ error' = "selectBothFields"
          /\ UNCHANGED <<formVars, loading, results, badges, handlerVars>>
       \/ /\ ~InputsMissing(selectedRegion, selectedSoilType)
          /\ stale <= MaxStale
          /\ loading' = TRUE
          /\ error' = ""
          /\ results' = Null
          /\ badges' = <<>>
          /\ phase' = "rank"
          /\ subRegion' = selectedRegion
          /\ subSoilType' = selectedSoilType
          /\ cropData' = NoBody
          /\ detail' = <<>>
          /\ arrival' = <<>>
          /\ requests' = RecommendRequest(selectedRegion, selectedSoilType)
          /\ UNCHANGED <<formVars, stale>>

\* await fetch(`${API_BASE_URL}/recommend-crop`, ...) resolves
RecommendResponse ==
    /\ phase = "rank"
    /\ phase' = "rankJson"
    /\ UNCHANGED <<formVars, loading, results, error, badges, subRegion,
                   subSoilType, cropData, detail, arrival, requests, stale>>

\* the fetch, or cropResponse.json(), rejects
RecommendFails ==
    /\ phase \in {"rank", "rankJson"}
    /\ CatchFinally(0)
    /\ UNCHANGED <<formVars, subRegion, subSoilType, cropData, detail,
                   arrival, requests>>

\* await cropResponse.json() resolves with body: without the field the
\* handler throws; otherwise it maps the list to its /predict callbacks and
\* awaits Promise.all, which resolves at once for an empty list.
RecommendBody(body) ==
    /\ phase = "rankJson"
    /\ body \in RecommendBodies(subRegion)
    /\ cropData' = body
    /\ IF NoRecommendations(body)
         THEN /\ CatchFinally(0)
              /\ UNCHANGED <<detail, requests>>
         ELSE /\ detail' = [i \in 1..Len(body.top_recommendations) |-> "fetch"]
              /\ requests' = requests \o
                    DetailRequests(body.top_recommendations, subRegion, subSoilType)
              /\ IF Len(body.top_recommendations) = 0
                   THEN SetResults(CropDetails(body.top_recommendations, <<>>, <<>>))
                   ELSE /\ phase' = "details"
                        /\ UNCHANGED <<loading, results, error, badges, stale>>
    /\ UNCHANGED <<formVars, subRegion, subSoilType, arrival>>

\* await fetch(`${API_BASE_URL}/predict`, ...) of candidate i resolves
DetailResponse(i) ==
    /\ phase = "details"
    /\ i \in 1..Len(detail)
    /\ detail[i] = "fetch"
    /\ detail' = [detail EXCEPT ![i] = "json"]
    /\ UNCHANGED <<formVars, loading, results, error, badges, phase,
                   subRegion, subSoilType, cropData, arrival, requests,
                   stale>>

\* await detailResponse.json() of candidate i resolves with body; the
\* callback returns {crop, confidence, details}.  When it was the last one
\* pending, Promise.all resolves and the handler sets the results.
DetailBody(i, body) ==
    /\ phase = "details"
    /\ i \in 1..Len(detail)
    /\ detail[i] = "json"
    /\ body \in DetailBodies
    /\ detail' = [detail EXCEPT ![i] = body]
    /\ arrival' = Append(arrival, i)
    /\ IF Pending = {i}
         THEN SetResults(CropDetails(cropData.top_recommendations, detail', arrival'))
         ELSE UNCHANGED <<loading, results, error, badges, phase, stale>>
    /\ UNCHANGED <<formVars, subRegion, subSoilType, cropData, requests>>

\* A variant that asks again when a candidate's request rejects.
DetailRetries(i) ==
    /\ phase = "details"
    /\ i \in 1..Len(detail)
    /\ InFlight(i)
    /\ Len(requests) <= 2 * MaxList
    /\ detail' = [detail EXCEPT ![i] = "fetch"]
    /\ requests' = Append(requests,
          DetailRequests(cropData.top_recommendations, subRegion, subSoilType)[i])
    /\ UNCHANGED <<formVars, loading, results, error, badges, phase,
                   subRegion, subSoilType, cropData, arrival, stale>>

\* the fetch, or detailResponse.json(), of candidate i rejects: Promise.all
\* rejects with it and the handler goes to catch while the other callbacks
\* are still pending: those become stale, and the order in which the earlier
\* ones resolved is of no use any more.
DetailFails(i) ==
    /\ phase = "details"
    /\ i \in 1..Len(detail)
    /\ InFlight(i)
    /\ detail' = [j \in 1..Len(detail) |->
                     IF j = i THEN "failed"
                     ELSE IF InFlight(j) THEN "stale" ELSE detail[j]]
    /\ arrival' = <<>>
    /\ CatchFinally(Cardinality(Pending \ {i}))
    /\ UNCHANGED <<formVars, subRegion, subSoilType, cropData, requests>>

\* a callback of an abandoned Promise.all settles; its value is dropped
StaleSettles ==
    /\ stale > 0
    /\ stale' = stale - 1
    /\ UNCHANGED <<formVars, loading, results, error, badges, phase,
                   subRegion, subSoilType, cropData, detail, arrival,
                   requests>>

Next ==
    \/ DropdownResponse
    \/ DropdownLoaded
    \/ DropdownFails
    \/ \E region \in {""} \cup Regions : SelectRegion(region)
    \/ \E soilType \in {""} \cup SoilTypes : SelectSoilType(soilType)
    \/ handleSubmit
    \/ RecommendResponse
    \/ RecommendFails
    \/ \E region \in Regions : \E body \in RecommendBodies(region) : RecommendBody(body)
    \/ \E i \in 1..MaxList : DetailResponse(i)
    \/ \E i \in 1..MaxList : \E body \in DetailBodies : DetailBody(i, body)
    \/ \E i \in 1..MaxList : DetailFails(i)
    \/ StaleSettles

Spec == Init /\ [][Next]_vars

----------------------------------------------------------------------------
\* The confidence badges over the whole range of raw scores: the component
\* holds the results of a submission whose ranked list carried two
\* candidates with any raw scores of the grid, best first, and renders the
\* crop cards.

Candidate(i, score) == [crop |-> CropNames[i], confidence |-> score]

ScoreList(a, b) == <<Candidate(1, a), Candidate(2, b)>>

InitConf ==
    /\ dropdownData = [Region |-> Regions, SoilType |-> SoilTypes]
    /\ dropdownFetch = "done"
    /\ selectedRegion = "Punjab"
    /\ selectedSoilType = "Alluvial"
    /\ loading = FALSE
    /\ error = ""
    /\ phase = "idle"
    /\ subRegion = "Punjab"
    /\ subSoilType = "Alluvial"
    /\ \E a \in 0..Scale : \E b \in 0..a :
          LET top == ScoreList(a, b) IN
          /\ cropData = [present |-> TRUE, top_recommendations |-> top]
          /\ detail = [i \in 1..Len(top) |-> "data"]
          /\ arrival = [i \in 1..Len(top) |-> i]
          /\ requests = RecommendRequest("Punjab", "Alluvial")
                           \o DetailRequests(top, "Punjab", "Alluvial")
          /\ results = [null |-> FALSE, region |-> "Punjab", soilType |-> "Alluvial",
                        crops |-> CropDetails(top, detail, arrival)]
    /\ badges = <<>>
    /\ stale = 0

\* {results.crops.map((crop, index) => ... getConfidenceLevel(crop.confidence) ...)}
RenderCards ==
    /\ ~results.null
    /\ badges # RenderBadges(results)
    /\ badges' = RenderBadges(results)
    /\ UNCHANGED <<formVars, loading, results, error, handlerVars>>

NextConf == RenderCards

SpecConf == InitConf /\ [][NextConf]_vars

----------------------------------------------------------------------------
\* Properties of the confidence badge (checked under SpecConf)

\* The piecewise map of a raw score c (standing for c / Scale), as the
\* interval table reads, times 2 * Scale:
\*   rawPercent >= 25 : min(90, 60 + (rawPercent - 10) * 1.5)
\*   rawPercent >= 20 : min(85, 55 + (rawPercent - 10) * 2)
\*   rawPercent >= 15 : min(75, 50 + (rawPercent - 10) * 2.5)
\*   rawPercent >= 10 : min(65, 45 + (rawPercent - 10) * 3)
\*   below 10         : max(40, rawPercent * 4)
\* with rawPercent = 100 * c / Scale multiplied out.
TableValue(c) ==
    CASE 100 * c >= 25 * Scale -> Min(180 * Scale, 90 * Scale + 300 * c)
      [] 100 * c >= 20 * Scale /\ 100 * c < 25 * Scale
                               -> Min(170 * Scale, 70 * Scale + 400 * c)
      [] 100 * c >= 15 * Scale /\ 100 * c < 20 * Scale
                               -> Min(150 * Scale, 50 * Scale + 500 * c)
      [] 100 * c >= 10 * Scale /\ 100 * c < 15 * Scale
                               -> Min(130 * Scale, 30 * Scale + 600 * c)
      [] 100 * c < 10 * Scale  -> Max(80 * Scale, 800 * c)

\* n is the value v / (2 * Scale) rounded to a whole number: |n - value| <= 1/2.
RoundsTo(n, v) == 2 * v - 2 * Scale <= 4 * Scale * n /\ 4 * Scale * n <= 2 * v + 2 * Scale

\* C1: for every raw score of [0,1] the badge is the value of the first
\* matching branch of the piecewise map, rounded to a whole number; a
\* breakpoint takes the upper branch, so rawPercent = 25 has the value 82.5
\* (badge 82 or 83, never the 85 of the branch below) and rawPercent = 9.9
\* has the badge 40.
C1_PiecewiseMap ==
    \A i \in 1..Len(badges) :
        LET c == results.crops[i].confidence
        IN  /\ RoundsTo(badges[i], TableValue(c))
            /\ 100 * c = 25 * Scale =>
                  TableValue(c) * 2 = 165 * 2 * Scale /\ badges[i] \in {82, 83}
            /\ 1000 * c = 99 * Scale => badges[i] = 40

\* Witness of C1: the cards of the raw scores 0.25 and 0.099 are rendered.
C1_Witness ==
    /\ Len(badges) = 2
    /\ 100 * results.crops[1].confidence = 25 * Scale
    /\ 1000 * results.crops[2].confidence = 99 * Scale
    /\ badges = <<83, 40>>

\* C2: the reshaping is monotonic: of two rendered candidates, the one with
\* the greater raw score never has the smaller badge, also when the two
\* scores lie on opposite sides of a breakpoint.
C2_Monotonic ==
    \A i, j \in 1..Len(badges) :
        results.crops[i].confidence > results.crops[j].confidence
            => badges[i] >= badges[j]

\* C3: every badge lies in the closed range [40, 90].
C3_Range ==
    \A i \in 1..Len(badges) : 40 <= badges[i] /\ badges[i] <= 90

\* Witness of C3: the cards of the raw scores 1 and 0 are rendered, with the
\* badges at both ends of the range.
C3_Witness ==
    /\ Len(badges) = 2
    /\ results.crops[1].confidence = Scale
    /\ results.crops[2].confidence = 0
    /\ badges = <<90, 40>>

----------------------------------------------------------------------------
\* Properties of a submission (checked under Spec)

Top == cropData.top_recommendations

Failed == {i \in 1..Len(detail) : detail[i] = "failed"}

RequestsTo(url) == {k \in 1..Len(requests) : requests[k].url = url}

\* The result list is the ranked list, entry by entry.
ResultsMatchRanking(res, top) ==
    /\ ~res.null
    /\ Len(res.crops) = Len(top)
    /\ \A i \in 1..Len(top) :
          /\ res.crops[i].crop = top[i].crop
          /\ res.crops[i].confidence = top[i].confidence

C5_PhaseOrder ==
    /\ requests # <<>> =>
          /\ ~InputsMissing(subRegion, subSoilType)
          /\ RequestsTo("/recommend-crop") = {1}
    /\ phase \in {"rank", "rankJson"} => Len(requests) = 1 /\ ~cropData.present
    /\ RequestsTo("/predict") # {} =>
          /\ cropData.present
          /\ phase \in {"details", "idle"}
    /\ phase = "details" => cropData.present /\ Len(detail) = Len(Top)
    /\ phase = "idle" <=> ~loading

\* Witness of C5: the submission is in its last phase, one /recommend-crop
\* request followed by the three /predict requests.
C5_Witness ==
    /\ phase = "details"
    /\ Len(requests) = 4
    /\ requests[1].url = "/recommend-crop"
    /\ \A k \in 2..4 : requests[k].url = "/predict"

C7_RankOrderKept ==
    ~results.null =>
        /\ ResultsMatchRanking(results, Top)
        /\ Top = SubSeq(Ranking(results.region), 1, Len(Top))
        /\ Len(badges) = Len(Top)
        /\ \A i \in 1..Len(Top) :
              /\ results.crops[i].details = detail[i]
              /\ badges[i] = getConfidenceLevel(Top[i].confidence)

\* Witness of C7: results are shown although the response of the 3rd
\* candidate arrived first and that of the 1st last.
C7_Witness ==
    /\ ~results.null
    /\ arrival = <<3, 2, 1>>
    /\ results.crops[1].crop = Ranking(results.region)[1].crop

\* C8: a submission whose ranked list has fewer than K candidates, zero
\* included, and whose requests all succeed completes with results holding
\* exactly the returned candidates and with no error.
C8_FewerThanK ==
    [][(/\ phase # "idle"
        /\ phase' = "idle"
        /\ cropData'.present
        /\ Len(cropData'.top_recommendations) < TopK
        /\ \A i \in 1..Len(detail') : detail'[i] \in DetailBodies)
          => /\ ResultsMatchRanking(results', cropData'.top_recommendations)
             /\ error' = ""
             /\ ~loading']_vars

\* Witness of C8: the ranked list was empty and the submission completed
\* with results that hold no candidate and with no error.
C8_Witness ==
    /\ phase = "idle"
    /\ cropData.present
    /\ Len(Top) = 0
    /\ ~results.null
    /\ results.crops = <<>>
    /\ error = ""

\* C9: at most K /predict requests of a submission are in flight, whatever
\* the length of the ranked list.
C9_BoundedFanOut == Cardinality(Pending) <= TopK

\* C10: within one submission no request is issued twice: one
\* /recommend-crop request, one /predict request per candidate, and a
\* candidate whose request failed ends the handler without being asked again.
C10_NoRetries ==
    /\ Cardinality(RequestsTo("/recommend-crop")) <= 1
    /\ \A k, l \in RequestsTo("/predict") :
          requests[k].Crop = requests[l].Crop => k = l
    /\ Cardinality(RequestsTo("/predict")) = Len(detail)
    /\ \A i \in Failed : phase = "idle"

\* Witness of C10: the request of the 1st of two candidates failed; each
\* request was issued once and the handler is over.
C10_Witness ==
    /\ Len(detail) = 2
    /\ detail[1] = "failed"
    /\ Len(requests) = 3
    /\ phase = "idle"

----------------------------------------------------------------------------
\* Properties across submissions (checked under Spec)

\* C11: results are request-scoped: while a submission is running the
\* previous results, badges and error are cleared, and results that are
\* shown come from the one submission the handler last ran: its region, its
\* soil type, and for every entry the crop and raw score of its ranked list
\* and the details its own /predict request returned.
C11_RequestScoped ==
    /\ phase # "idle" => results = Null /\ badges = <<>> /\ error = ""
    /\ ~results.null =>
          /\ results.region = subRegion
          /\ results.soilType = subSoilType
          /\ cropData.present
          /\ results.crops = [i \in 1..Len(Top) |->
                 [crop |-> Top[i].crop, confidence |-> Top[i].confidence,
                  details |-> detail[i]]]
          /\ \A i \in 1..Len(detail) : detail[i] \in DetailBodies

\* Witness of C11: results of a submission are shown, without error, while
\* callbacks of an earlier, abandoned submission are still pending.
C11_Witness ==
    /\ ~results.null
    /\ Len(results.crops) = 2
    /\ error = ""
    /\ stale > 0

\* C13: at most one submission is in flight: while loading no submission
\* starts and no submit is rejected (the control is disabled), the handler's
\* inputs do not change, and a late callback of an older submission changes
\* nothing that is displayed.
C13_SingleFlight ==
    [][/\ loading =>
            /\ phase' = "rank" => phase = "rank"
            /\ subRegion' = subRegion /\ subSoilType' = subSoilType
            /\ error' = "selectBothFields" => error = "selectBothFields"
            /\ \A k \in 1..Len(requests) :
                  k <= Len(requests') /\ requests'[k] = requests[k]
       /\ stale' < stale =>
            UNCHANGED <<results, badges, error, loading, phase, detail, cropData>>]_vars

\* Witness of C13: a submission is awaiting its /predict responses while a
\* callback of an older submission is still pending.
C13_Witness ==
    /\ loading
    /\ phase = "details"
    /\ stale > 0

\* C14: a submission works on a snapshot of its inputs: every request of
\* the submission, and the results, carry the region and soil type of its
\* /recommend-crop request, whatever the selects show by then.
C14_Snapshot ==
    /\ \A k \in 1..Len(requests) :
          /\ requests[k].Region = requests[1].Region
          /\ requests[k].SoilType = requests[1].SoilType
    /\ requests # <<>> =>
          requests[1].Region = subRegion /\ requests[1].SoilType = subSoilType
    /\ ~results.null =>
          /\ results.region = requests[1].Region
          /\ results.soilType = requests[1].SoilType

\* Witness of C14: the /predict requests are out for the region of the
\* /recommend-crop request while the region select shows another region.
C14_Witness ==
    /\ phase = "details"
    /\ Len(requests) = 3
    /\ selectedRegion \in Regions
    /\ selectedRegion # requests[1].Region
    /\ requests[3].Region = requests[1].Region

\* C15: a submit with an empty region or soil type has no effect beyond
\* the error message: the message appears only by such a submit, and the
\* step issues no request and leaves loading, results and badges unchanged
\* (results of an earlier submission stay displayed beside the error).
C15_RejectOnlySetsError ==
    [][/\ (error' = "selectBothFields" /\ error # "selectBothFields") =>
             /\ ~loading
             /\ InputsMissing(selectedRegion, selectedSoilType)
       /\ (~loading /\ InputsMissing(selectedRegion, selectedSoilType)
             /\ error' = "selectBothFields") =>
             UNCHANGED <<loading, results, badges, phase, requests, cropData,
                         detail, subRegion, subSoilType>>]_vars

\* Witness of C15: the results of an earlier submission are displayed
\* beside the error of a rejected submit.
C15_Witness ==
    /\ ~results.null
    /\ Len(results.crops) > 0
    /\ error = "selectBothFields"
    /\ InputsMissing(selectedRegion, selectedSoilType)
    /\ ~loading

----------------------------------------------------------------------------
\* Termination of a submission (checked under SpecFair)

\* A pending await of the running handler settles: a fetch or a json() of
\* the handler or of one of its map callbacks resolves or rejects.
Settle ==
    \/ RecommendResponse
    \/ RecommendFails
    \/ \E region \in Regions : \E body \in RecommendBodies(region) : RecommendBody(body)
    \/ \E i \in 1..MaxList : DetailResponse(i)
    \/ \E i \in 1..MaxList : \E body \in DetailBodies : DetailBody(i, body)
    \/ \E i \in 1..MaxList : DetailFails(i)

\* The component once the dropdowns are loaded and both selects are set.
InitFair ==
    /\ dropdownData = [Region |-> Regions, SoilType |-> SoilTypes]
    /\ dropdownFetch = "done"
    /\ selectedRegion \in Regions
    /\ selectedSoilType \in SoilTypes
    /\ loading = FALSE
    /\ results = Null
    /\ error = ""
    /\ badges = <<>>
    /\ phase = "idle"
    /\ subRegion = ""
    /\ subSoilType = ""
    /\ cropData = NoBody
    /\ detail = <<>>
    /\ arrival = <<>>
    /\ requests = <<>>
    /\ stale = 0

\* Submissions, one after the other, and what the network does to them.
NextFair ==
    \/ handleSubmit
    \/ Settle
    \/ StaleSettles

\* Every outstanding request of the running handler is eventually answered
\* or fails: the network and the event loop do not stall for ever.
SpecFair == InitFair /\ [][NextFair]_vars /\ WF_vars(Settle)

\* results non-null with no error, or an error with results null
DefiniteOutcome(res, err) ==
    \/ ~res.null /\ err = ""
    \/ res.null /\ err # ""

\* C12: every validated submission terminates in a definite outcome:
\* loading eventually returns to false, and at the step that resets it
\* exactly one of the two holds: results are set and error is empty, or
\* error is set and results are null.
C12_Terminates ==
    /\ loading ~> ~loading
    /\ [][(loading /\ ~loading') =>
             /\ DefiniteOutcome(results', error')
             /\ ~(~results'.null /\ error' # "")
             /\ phase' = "idle"]_vars

\* Witness of C12: a submission has ended by the failure of a /predict
\* request: not loading, an error, no results.
C12_Witness ==
    /\ ~loading
    /\ phase = "idle"
    /\ Failed # {}
    /\ results.null
    /\ error = "fetchFailed"

====
